---- MODULE Spec2Model ----
(***************************************************************************)
(* Model of trashdays.py: one run of TrashDays.run() for a reference date  *)
(* TODAY.  A datetime is a record [ord, off]: the proleptic Gregorian      *)
(* ordinal of its calendar day (datetime.toordinal) and the UTC offset in  *)
(* hours of its tzinfo; every datetime the program handles is at 00:00:00  *)
(* wall time.  The return statement of _is_observed_holiday spans two      *)
(* source lines (72-73); it is read as the single disjunction it spells.   *)
(***************************************************************************)
EXTENDS Integers, Sequences, FiniteSets, TLC

\* first and last calendar year from which the reference date is drawn
MinYear == 2021
MaxYear == 2030

TUESDAY == 1
WEDNESDAY == 2

CST == -6
CDT == -5

----------------------------------------------------------------------------
\* calendar arithmetic of datetime (proleptic Gregorian calendar)

IsLeap(y) == (y % 4 = 0) /\ ((y % 100 # 0) \/ (y % 400 = 0))

DaysInYear(y) == IF IsLeap(y) THEN 366 ELSE 365

DaysInMonth(y, m) ==
  IF m = 2 THEN (IF IsLeap(y) THEN 29 ELSE 28)
  ELSE IF m \in {4, 6, 9, 11} THEN 30 ELSE 31

\* days of year y before the first of month m
DaysBeforeMonth(y, m) ==
  <<0, 31, 59, 90, 120, 151, 181, 212, 243, 273, 304, 334>>[m]
    + (IF m > 2 /\ IsLeap(y) THEN 1 ELSE 0)

DaysBeforeYear(y) ==
  (y - 1) * 365 + ((y - 1) \div 4) - ((y - 1) \div 100) + ((y - 1) \div 400)

\* date(y, m, d).toordinal()
Ymd2ord(y, m, d) == DaysBeforeYear(y) + DaysBeforeMonth(y, m) + d

\* date.fromordinal(n) as [year, month, day]
Ord2ymd(n) ==
  LET n0   == n - 1
      n400 == n0 \div 146097
      r400 == n0 % 146097
      n100 == r400 \div 36524
      r100 == r400 % 36524
      n4   == r100 \div 1461
      r4   == r100 % 1461
      n1   == r4 \div 365
      r1   == r4 % 365
      y    == n400 * 400 + n100 * 100 + n4 * 4 + n1 + 1
  IN IF n1 = 4 \/ n100 = 4
       THEN [year |-> y - 1, month |-> 12, day |-> 31]
       ELSE LET est == (r1 + 50) \div 32
                m   == IF DaysBeforeMonth(y, est) > r1 THEN est - 1 ELSE est
            IN [year |-> y, month |-> m, day |-> r1 - DaysBeforeMonth(y, m) + 1]

\* datetime.weekday(): Monday is 0
Weekday(n) == (n + 6) % 7

\* dt + timedelta(days=k): wall-clock arithmetic, the tzinfo is kept as it is
AddDays(dt, k) == [ord |-> dt.ord + k, off |-> dt.off]

\* the instant of a midnight datetime, in hours since ordinal 0 UTC
UtcHours(dt) == dt.ord * 24 - dt.off

\* == and <= of two aware datetimes: by instant
DtEq(a, b) == UtcHours(a) = UtcHours(b)
DtLe(a, b) == UtcHours(a) <= UtcHours(b)

----------------------------------------------------------------------------
\* timezone("US/Central")

\* the n-th Sunday (n >= 1; Sunday is weekday 6) of month m of year y
NthSunday(y, m, n) ==
  LET first == Ymd2ord(y, m, 1)
  IN first + ((6 - Weekday(first)) % 7) + 7 * (n - 1)

DstStart(y) == NthSunday(y, 3, 2)
DstEnd(y) == NthSunday(y, 11, 1)

\* TZ.localize(datetime(y, m, d)): the offset in force at 00:00 of that day
Localize(n) ==
  LET y == Ord2ymd(n).year
  IN [ord |-> n, off |-> IF DstStart(y) < n /\ n <= DstEnd(y) THEN CDT ELSE CST]

\* the offsets datetime.now(TZ) can carry at some instant of calendar day n
NowOffsets(n) ==
  LET y == Ord2ymd(n).year
  IN IF n = DstStart(y) \/ n = DstEnd(y) THEN {CST, CDT}
     ELSE IF DstStart(y) < n /\ n < DstEnd(y) THEN {CDT} ELSE {CST}

RECYCLING_EPOCH == Localize(Ymd2ord(2021, 3, 16))

\* the UTC offsets (hours) of the zone the host's C library is set to; it is
\* what strftime("%s") reads the wall time in, whatever the tzinfo
HostOffsets == {CST, 0}

VARIABLES TODAY, hostoff, pc, upcoming_trash_day, params,
          html_file, json_file, html_writes, json_writes, renders

vars == <<TODAY, hostoff, pc, upcoming_trash_day, params,
          html_file, json_file, html_writes, json_writes, renders>>

----------------------------------------------------------------------------
\* TrashDays

is_observed_holiday(dt) ==
  LET d == Ord2ymd(dt.ord)
  IN (d.month = 12 /\ d.day = 25) \/ (d.month = 1 /\ d.day = 1)

\* variant: the holiday is not shifted
holiday_adjust_noshift(dt) == dt

\* variant: the holiday is shifted to the same weekday of the next week
holiday_adjust_week(dt) ==
  IF is_observed_holiday(dt) THEN AddDays(dt, 7) ELSE dt

holiday_adjust(dt) ==
  IF is_observed_holiday(dt) THEN AddDays(dt, 1) ELSE dt

\* variant: weekday(+2), the second occurrence of the weekday
relativedelta_add_nth2(dt, days, weekday) ==
  LET ret == AddDays(dt, days)
  IN AddDays(ret, 7 + ((7 - Weekday(ret.ord) + weekday) % 7))

\* dt + relativedelta(days=days, weekday=weekday(+1)): the days are added
\* first, then the date moves forward to the weekday unless it is on it
relativedelta_add(dt, days, weekday) ==
  LET ret == AddDays(dt, days)
  IN AddDays(ret, (7 - Weekday(ret.ord) + weekday) % 7)

\* rrule(dtstart=RECYCLING_EPOCH, until=until, freq=WEEKLY, interval=2):
\* dtstart + 14k days at dtstart's tzinfo, while not after until
rrule_biweekly(dtstart, until) ==
  LET span == until.ord - dtstart.ord + 1
      last == IF span < 0 THEN -1 ELSE span \div 14
  IN { dt \in { AddDays(dtstart, 14 * k) : k \in 0..last } : DtLe(dt, until) }

generate_recycling_days(today) ==
  { holiday_adjust(x) : x \in rrule_biweekly(RECYCLING_EPOCH, AddDays(today, 14)) }

\* variant: no makeup-day branch for Wednesday
determine_no_makeup(today) ==
  IF Weekday(today.ord) = TUESDAY
    THEN holiday_adjust(today)
  ELSE holiday_adjust(relativedelta_add(today, 1, TUESDAY))

\* variant: every Wednesday is taken as a makeup day
determine_wed_today(today) ==
  IF Weekday(today.ord) = TUESDAY
    THEN holiday_adjust(today)
  ELSE IF Weekday(today.ord) = WEDNESDAY
    THEN today
  ELSE holiday_adjust(relativedelta_add(today, 1, TUESDAY))

\* variant: no same-day branch for Tuesday
determine_no_tuesday(today) ==
  IF Weekday(today.ord) = WEDNESDAY
          /\ is_observed_holiday(AddDays(today, -1))
    THEN today
  ELSE holiday_adjust(relativedelta_add(today, 1, TUESDAY))

determine_upcoming_trash_day(today) ==
  IF Weekday(today.ord) = TUESDAY
    THEN holiday_adjust(today)
  ELSE IF Weekday(today.ord) = WEDNESDAY
          /\ is_observed_holiday(AddDays(today, -1))
    THEN today
  ELSE holiday_adjust(relativedelta_add(today, 1, TUESDAY))

\* trash_day.strftime("%A, %B %d %Y"): the fields the text spells
strftime_readable(dt) ==
  LET d == Ord2ymd(dt.ord)
  IN [weekday |-> Weekday(dt.ord), month |-> d.month, day |-> d.day,
      year |-> d.year]

\* trash_day.strftime("%s"): seconds since 1970-01-01 UTC of the wall time
\* taken as host local time
strftime_s(dt, host) ==
  (dt.ord - Ymd2ord(1970, 1, 1)) * 86400 - host * 3600

\* x in iterable: some element compares equal
Contains(days, dt) == \E r \in days : DtEq(r, dt)

render_params(trash_day, today, host) ==
  [trash_day_readable |-> strftime_readable(trash_day),
   trash_day          |-> strftime_s(trash_day, host),
   countdown          |-> trash_day.ord - today.ord,
   recycling          |-> Contains(generate_recycling_days(today), trash_day)]

----------------------------------------------------------------------------
\* TrashDays.run, one action per statement

NoDate == [ord |-> 0, off |-> 0]
OldFile == [state |-> "old", content |-> <<>>]

Init ==
  /\ \E y \in MinYear..MaxYear :
       \E n \in Ymd2ord(y, 1, 1)..Ymd2ord(y, 12, 31) :
         \E o \in NowOffsets(n) : TODAY = [ord |-> n, off |-> o]
  /\ hostoff \in HostOffsets
  /\ pc = "determine"
  /\ upcoming_trash_day = NoDate
  /\ params = <<>>
  /\ html_file = OldFile
  /\ json_file = OldFile
  /\ html_writes = 0
  /\ json_writes = 0
  /\ renders = 0

\* upcoming_trash_day = self._determine_upcoming_trash_day()
DetermineUpcomingTrashDay ==
  /\ pc = "determine"
  /\ upcoming_trash_day' = determine_upcoming_trash_day(TODAY)
  /\ pc' = "render"
  /\ UNCHANGED <<TODAY, hostoff, params, html_file, json_file,
                 html_writes, json_writes, renders>>

\* params = self._render_params(upcoming_trash_day)
RenderParams ==
  /\ pc = "render"
  /\ params' = <<render_params(upcoming_trash_day, TODAY, hostoff)>>
  /\ renders' = renders + 1
  /\ pc' = "write_html"
  /\ UNCHANGED <<TODAY, hostoff, upcoming_trash_day, html_file, json_file,
                 html_writes, json_writes>>

\* what a scoped open(path, "w") / fh.write(text) leaves on disk:
\* "open" fails and the file is untouched, "write" fails after the truncation,
\* or the text is written
write_file(old, text, outcome) ==
  IF outcome = "open_fails" THEN old
  ELSE IF outcome = "write_fails" THEN [state |-> "truncated", content |-> <<>>]
  ELSE [state |-> "written", content |-> text]

\* variant: a failure of the HTML step does not stop the run
write_html_swallow(outcome) ==
  /\ pc = "write_html"
  /\ html_writes' = html_writes + 1
  /\ html_file' = IF outcome = "template_fails" THEN html_file
                  ELSE write_file(html_file, <<"html", params[1]>>, outcome)
  /\ pc' = "write_json"
  /\ UNCHANGED <<TODAY, hostoff, upcoming_trash_day, params, json_file,
                 json_writes, renders>>

\* self._write_html(params); the template may fail to load or render
write_html(outcome) ==
  /\ pc = "write_html"
  /\ html_writes' = html_writes + 1
  /\ html_file' = IF outcome = "template_fails" THEN html_file
                  ELSE write_file(html_file, <<"html", params[1]>>, outcome)
  /\ pc' = IF outcome = "ok" THEN "write_json" ELSE "error"
  /\ UNCHANGED <<TODAY, hostoff, upcoming_trash_day, params, json_file,
                 json_writes, renders>>

WriteHtml ==
  \E outcome \in {"template_fails", "open_fails", "write_fails", "ok"} :
     write_html(outcome)

\* self._write_json(params)
write_json(outcome) ==
  /\ pc = "write_json"
  /\ json_writes' = json_writes + 1
  /\ json_file' = write_file(json_file, <<"json", params[1]>>, outcome)
  /\ pc' = IF outcome = "ok" THEN "done" ELSE "error"
  /\ UNCHANGED <<TODAY, hostoff, upcoming_trash_day, params, html_file,
                 html_writes, renders>>

WriteJson ==
  \E outcome \in {"open_fails", "write_fails", "ok"} : write_json(outcome)

Next ==
  \/ DetermineUpcomingTrashDay
  \/ RenderParams
  \/ WriteHtml
  \/ WriteJson

Spec == Init /\ [][Next]_vars

----------------------------------------------------------------------------
\* properties

\* the ordinals of every 12/25 and 1/1 the run can touch
Holidays ==
  { Ymd2ord(y, 12, 25) : y \in MinYear..(MaxYear + 1) }
    \cup { Ymd2ord(y, 1, 1) : y \in MinYear..(MaxYear + 1) }

Determined == pc # "determine"
Rendered == params # <<>>
IsTuesday == Weekday(TODAY.ord) = TUESDAY
IsWednesday == Weekday(TODAY.ord) = WEDNESDAY

\* C1: on a Tuesday the trash day is the reference date itself unless that
\* date is 12/25 or 1/1, and then it is the next day
C1_Tuesday ==
  (Determined /\ IsTuesday) =>
     upcoming_trash_day =
       IF TODAY.ord \in Holidays THEN AddDays(TODAY, 1) ELSE TODAY

C1_Witness ==
  /\ Determined /\ IsTuesday /\ TODAY.ord \in Holidays
  /\ upcoming_trash_day.ord = TODAY.ord + 1

\* C2: on a Wednesday whose Tuesday was 12/25 or 1/1 the trash day is the
\* reference date, unchanged
C2_MakeupWednesday ==
  (Determined /\ IsWednesday /\ (TODAY.ord - 1) \in Holidays) =>
     upcoming_trash_day = TODAY

C2_Witness ==
  /\ Determined /\ IsWednesday /\ (TODAY.ord - 1) \in Holidays
  /\ upcoming_trash_day = TODAY
  /\ Ord2ymd(TODAY.ord).month = 12

\* C3: on a Wednesday whose Tuesday was not a holiday the trash day is the
\* Tuesday six days later, or the day after it when that Tuesday is a
\* holiday, and never the reference date; 2025-01-01 gives 2025-01-07
C3_PlainWednesday ==
  (Determined /\ IsWednesday /\ (TODAY.ord - 1) \notin Holidays) =>
     /\ upcoming_trash_day =
          IF (TODAY.ord + 6) \in Holidays THEN AddDays(TODAY, 7)
                                          ELSE AddDays(TODAY, 6)
     /\ upcoming_trash_day # TODAY
     /\ TODAY.ord = Ymd2ord(2025, 1, 1) =>
          upcoming_trash_day.ord = Ymd2ord(2025, 1, 7)

C3_Witness ==
  /\ Determined /\ IsWednesday /\ (TODAY.ord - 1) \notin Holidays
  /\ (TODAY.ord + 6) \in Holidays
  /\ upcoming_trash_day.ord = TODAY.ord + 7

\* C4: on any day but Tuesday and Wednesday the trash day is a Tuesday or a
\* Wednesday, later than the reference date and at most 8 days later
C4_OtherDays ==
  (Determined /\ ~IsTuesday /\ ~IsWednesday) =>
     /\ Weekday(upcoming_trash_day.ord) \in {TUESDAY, WEDNESDAY}
     /\ UtcHours(upcoming_trash_day) > UtcHours(TODAY)
     /\ DtLe(upcoming_trash_day, AddDays(TODAY, 8))

C4_Witness ==
  /\ Determined /\ ~IsTuesday /\ ~IsWednesday
  /\ Weekday(upcoming_trash_day.ord) = WEDNESDAY
  /\ upcoming_trash_day.ord = TODAY.ord + 6

\* C5 as stated: for 2024-12-24 the trash day is 2024-12-26 and the
\* countdown is 2
C5_Original ==
  (Rendered /\ TODAY.ord = Ymd2ord(2024, 12, 24)) =>
     /\ upcoming_trash_day.ord = Ymd2ord(2024, 12, 26)
     /\ params[1].countdown = 2

\* C5 amended: 2024-12-24 is a Tuesday and no holiday, so the trash day is
\* 2024-12-24 itself and the countdown is 0
C5_Amended ==
  (Rendered /\ TODAY.ord = Ymd2ord(2024, 12, 24)) =>
     /\ upcoming_trash_day.ord = Ymd2ord(2024, 12, 24)
     /\ params[1].countdown = 0

C5_Witness ==
  /\ Rendered /\ TODAY.ord = Ymd2ord(2024, 12, 24) /\ IsTuesday
  /\ params[1].countdown = 0
  /\ params[1].trash_day_readable =
       [weekday |-> TUESDAY, month |-> 12, day |-> 24, year |-> 2024]

\* the Tuesday a trash day stands for: itself, or the day before a
\* Wednesday
NominalTuesday(dt) ==
  IF Weekday(dt.ord) = TUESDAY THEN dt.ord ELSE dt.ord - 1

\* C6: from the epoch on, the recycling flag is true exactly when the
\* nominal Tuesday of the trash day is a multiple of 14 days after the epoch
C6_RecyclingFlag ==
  (Rendered /\ TODAY.ord >= RECYCLING_EPOCH.ord) =>
     (params[1].recycling <=>
        (NominalTuesday(upcoming_trash_day) - RECYCLING_EPOCH.ord) % 14 = 0)

\* C7: the reference date, the trash day and every recycling day are
\* midnights at one offset, so equal calendar days compare equal
C7_OneOffset ==
  Rendered =>
     /\ upcoming_trash_day.off = TODAY.off
     /\ \A r \in generate_recycling_days(TODAY) :
          /\ r.off = TODAY.off
          /\ r.ord = upcoming_trash_day.ord => DtEq(r, upcoming_trash_day)

HtmlOf(p) == [state |-> "written", content |-> <<"html", p[1]>>]
JsonOf(p) == [state |-> "written", content |-> <<"json", p[1]>>]

\* C8: the record is computed once, each sink is written at most once, HTML
\* before JSON with the same record; a failed HTML write ends the run in
\* error with no JSON attempt, a failed JSON write ends it in error with the
\* HTML output in place
C8_WriteOrder ==
  /\ renders <= 1 /\ html_writes <= 1 /\ json_writes <= 1
  /\ html_writes = 1 => (renders = 1 /\ Rendered)
  /\ json_writes = 1 => (html_writes = 1 /\ html_file = HtmlOf(params))
  /\ (html_writes = 1 /\ html_file.state # "written") =>
        (pc = "error" /\ json_writes = 0 /\ json_file = OldFile)
  /\ (json_writes = 1 /\ json_file.state # "written") => pc = "error"
  /\ pc = "done" => (json_file = JsonOf(params) /\ html_file = HtmlOf(params))
  /\ pc = "error" => ~(ENABLED Next)

C8_Witness ==
  /\ pc = "error" /\ json_writes = 1 /\ json_file.state = "truncated"
  /\ html_file = HtmlOf(params)

\* C9: the trash day is never 12/25 and never 1/1
C9_NeverHoliday ==
  Determined => upcoming_trash_day.ord \notin Holidays

C9_Witness ==
  /\ Determined /\ IsTuesday /\ TODAY.ord \in Holidays
  /\ Ord2ymd(upcoming_trash_day.ord).month = 1
  /\ Ord2ymd(upcoming_trash_day.ord).day = 2

\* C10: the countdown is between 0 and 7, and it is 0 exactly on a Tuesday
\* that is no holiday and on a Wednesday whose Tuesday was a holiday
C10_Countdown ==
  Rendered =>
     /\ params[1].countdown \in 0..7
     /\ params[1].countdown = 0 <=>
          \/ IsTuesday /\ TODAY.ord \notin Holidays
          \/ IsWednesday /\ (TODAY.ord - 1) \in Holidays

C10_Witness ==
  /\ Rendered /\ params[1].countdown = 7

====
